---- MODULE Spec2Model ----
(***************************************************************************)
(* whisper-client: the resilient WebSocket client                          *)
(* (src/src/network/websocket.py) and the hotkey-driven recording state    *)
(* machine with its audio source (src/src/input/hotkey.py,                 *)
(* src/src/audio/capture.py, src/src/audio/processor.py).                  *)
(*                                                                         *)
(* SpecNet  : the coroutines of WebSocketClient on the asyncio event loop. *)
(*            One action is one run of a coroutine from a resumption to    *)
(*            its next await.                                              *)
(* SpecRec  : HotkeyManager + AudioCapture + the processing handoff.       *)
(* SpecProc : SpecRec for one key configuration, with the engine's         *)
(*            failures remembered.                                         *)
(* SpecCap  : AudioCapture alone, its methods called in any order.         *)
(* SpecHooks: HotkeyManager's configuration methods and the hooks they     *)
(*            install.                                                     *)
(* SpecRace : the key handlers, stop()/start(), stop_recording() and the   *)
(*            audio callback on their threads, one statement a step.       *)
(***************************************************************************)
EXTENDS Integers, Sequences, FiniteSets, TLC

\* ------------------------------------------------------------------ bounds
\* connect() coroutines that may be alive at the same time
MaxLoops == 2
\* audio chunks the device delivers in a run
MaxChunks == 3
\* _process_audio() coroutines submitted to the loop and not yet run
MaxPending == 2

\* frames the server sends in a run in which inbound frames are numbered
MaxFrames == 2
\* devices sd.query_devices() lists
MaxDevices == 3

Loops == 1..MaxLoops
\* socket objects that can be referenced at once: self.websocket, one per
\* listener, one by the metrics task's pending send
Socks == 1..(MaxLoops + 2)

Min(a, b) == IF a < b THEN a ELSE b

VARIABLES
    \* ---- WebSocketClient fields
    should_reconnect,   \* self.should_reconnect
    connected,          \* self.connected
    websocket,          \* self.websocket: 0 is None, else a socket id
    metrics_task,       \* self.metrics_task and the task's position
    \* ---- coroutines and sockets
    pcC,                \* position of each connect() coroutine
    lsock,              \* socket a connect() coroutine is awaiting on (0: none)
    msock,              \* socket of the metrics task's pending send (0: none)
    pcD,                \* position of the disconnect() coroutine
    sock,               \* state of each socket object
    ui_status,          \* value of the latest status_handler call scheduled
    \* ---- observation of the run (history, not program state)
    emitted,            \* what the latest step sent, dispatched and started
    since,              \* per connect(): what happened since its last failure
    discDone,           \* "running": disconnect() was called; "done": it has
                        \* returned; "no": connect() was called after it
    dRow,               \* a disconnect() returned and nothing ran since
    dSecond,            \* the running disconnect() directly follows another
    firstFrame,         \* type of the first frame sent on the socket that is
                        \* now self.websocket ("none": nothing sent on it yet)
    rx                  \* inbound frames by number: those recv() returned
                        \* well-formed, those handed to the message handler,
                        \* whether a handler call is in progress (kept only
                        \* in the runs that number the frames)

netVars == <<should_reconnect, connected, websocket, metrics_task, pcC, lsock,
             msock, pcD, sock, ui_status, emitted, since, discDone,
             dRow, dSecond, firstFrame, rx>>

VARIABLES
    \* ---- HotkeyManager fields
    mode,                 \* self.mode
    is_recording,         \* self.is_recording (the controller's state)
    push_to_talk_key,     \* self.push_to_talk_key ("" when not set)
    action_hotkeys,       \* self.action_hotkeys: the key of each action
                          \* ("" when the dict has no entry for it)
    hooks,                \* the hooks the keyboard library has installed:
                          \* the key and the handler of each
    hooks_active,         \* self._hooks_active
    loop,                 \* self.loop
    \* ---- AudioCapture fields
    capture_is_recording, \* AudioCapture.is_recording
    audio_queue,          \* AudioCapture.audio_queue, oldest chunk first
    stream,               \* AudioCapture.stream
    \* ---- the event loop and the audio device
    pending,              \* _process_audio() coroutines submitted to the loop
                          \* with run_coroutine_threadsafe and not yet run
    nextChunk,            \* number of the next chunk the device delivers
    \* ---- observation of the run (history, not program state)
    recEv,                \* what the latest step called, returned and submitted
    lastKey,              \* latest push-to-talk event since the hooks were set
    session,              \* chunks delivered since the latest stream start
    curPair,              \* chunks delivered since the latest key-down
    pairs,                \* chunks of each finished key-down/key-up pair
    processed,            \* buffers process_audio() was invoked with
    pushRun,              \* only Push-mode key events so far: no stop(), no
                          \* restart of the hooks, no set_mode
    engine,               \* whether the engine has raised in process_audio(),
                          \* the latest processing notification and whether
                          \* the notifications have alternated so far
                          \* (kept only in the runs that remember it)
    \* ---- AudioCapture and the audio devices
    devices,              \* sd.query_devices(): max_input_channels of each
                          \* device, device 0 first
    selected_device,      \* AudioCapture.selected_device (-1 is None)
    sd_default_device,    \* sd.default.device[0]
    stream_device,        \* device of the stream start_recording() opened
                          \* last (-1: none opened yet)
    \* ---- the threads, statement by statement
    th                    \* where the keyboard-hook thread (hk), the loop
                          \* thread (lp) and the UI thread (ui) stand inside
                          \* a handler, stop_recording() or stop()/start();
                          \* the chunks queue.clear() discarded and the
                          \* chunks stop_recording() drained

devVars == <<devices, selected_device, sd_default_device>>

recVars == <<mode, is_recording, push_to_talk_key, action_hotkeys, hooks,
             hooks_active, loop, capture_is_recording, audio_queue, stream,
             pending, nextChunk, recEv, lastKey, session, curPair, pairs,
             processed, pushRun, engine, stream_device, devVars, th>>

vars == <<netVars, recVars>>

\* main_window.py installs both handlers before the loop runs anything
message_handler == TRUE
status_handler == TRUE

\* what one step did: the frame it put on the wire (type and fields), the
\* message it handed to the message handler, the status it notified, whether
\* it started a websockets.connect, whether a transport failure in it cleared
\* connected, the send method it ran with its arguments and whether that
\* raised to its caller
NoBody == [username |-> "none", content |-> "none", timestamp |-> "none",
           user_id |-> "none"]
NoCall == [op |-> "none", name |-> "none", text |-> "none", kind |-> "none"]
Quiet == [frame |-> "none", msg |-> "none", status |-> "none",
          attempt |-> FALSE, fault |-> FALSE, call |-> NoCall,
          raised |-> FALSE, body |-> NoBody]
NoEvent == [ev |-> "none", disc |-> FALSE, status |-> FALSE, cancel |-> FALSE,
            empty |-> 0]

\* frame numbering off (runs that do not number the frames) and on
RxOff == [on |-> FALSE, next |-> 1, arrived |-> <<>>, handled |-> <<>>,
          busy |-> FALSE]
RxOn == [RxOff EXCEPT !.on = TRUE]

\* ------------------------------------------------------------ WebSocketClient

\* json.dumps(message) as the peer reads it: the type and the fields a frame
\* can carry, "none" for a key the message does not have
FrameKeys == {"username", "content", "timestamp", "user_id"}
Encode(message) ==
    [k \in FrameKeys |-> IF k \in DOMAIN message THEN message[k] ELSE "none"]

\* variant of ConnectMessage: the frame carries another type
ConnectMessage_untyped == [type |-> "hello", user_id |-> "DISCORD_USER_ID"]

\* connect(), lines 35-38
ConnectMessage == [type |-> "connect", user_id |-> "DISCORD_USER_ID"]

\* variant of TranscriptMessage: the two text fields change places
TranscriptMessage_swapped(transcript, preferred_name) ==
    [type |-> "transcript", username |-> transcript.text,
     content |-> preferred_name, timestamp |-> "now"]

\* send_transcript(), lines 130-136
TranscriptMessage(transcript, preferred_name) ==
    [type |-> "transcript", username |-> preferred_name,
     content |-> transcript.text, timestamp |-> "now"]

\* send_action(), lines 141-144
ActionMessage(action) == [type |-> action.type, timestamp |-> action.timestamp]

\* variant of SendGuard: only the socket object is tested
SendGuard_socketOnly(ws, conn) == ws # 0

\* send_message(), line 117
SendGuard(ws, conn) == ws # 0 /\ conn

\* the first frame of a connection stays the first
FirstOf(old, type) == IF old = "none" THEN type ELSE old

\* variant of Dispatch: the frame is dropped
Dispatch_drop(log, k) == log

\* _listen(), lines 106-107: the frame recv() returned goes to the handler
Dispatch(log, k) == Append(log, k)

\* The head of `while self.should_reconnect:` followed by `if not
\* self.connected:`; the position the coroutine reaches without suspending.
\* With connected already set the body is skipped and the loop iterates again
\* without ever awaiting: the coroutine never yields ("spin").
HeadPc(sr, conn) ==
    IF ~sr THEN "idle" ELSE IF ~conn THEN "opening" ELSE "spin"

\* A coroutine that never yields keeps the single-threaded loop to itself.
Frozen == \E i \in Loops : pcC[i] = "spin"

Refs(ws, ls, ms) == ({ws} \cup {ls[i] : i \in Loops} \cup {ms}) \ {0}

\* Socket objects nobody references any more are forgotten.
Norm(sk, ws, ls, ms) ==
    [s \in Socks |-> IF s \in Refs(ws, ls, ms) THEN sk[s] ELSE "free"]

NewSock(ws, ls, ms) ==
    CHOOSE s \in Socks : /\ s \notin Refs(ws, ls, ms)
                         /\ \A t \in Socks : t \notin Refs(ws, ls, ms) => s <= t

\* An empty metrics_update reaches the message handler: every connect() that
\* has an unanswered failure counts it.
BumpEmpty(f) ==
    [j \in Loops |->
        IF f[j].ev # "none" /\ pcC[j] \notin {"opening", "idle"}
        THEN [f[j] EXCEPT !.empty = Min(2, @ + 1)] ELSE f[j]]

\* call_soon_threadsafe(self.status_handler, self.connected): the loop runs
\* the scheduled calls in the order they were scheduled, so the observer's
\* view is the value of the latest one.
Notify(v) ==
    IF ~status_handler THEN ui_status ELSE IF v THEN "up" ELSE "down"
Notified(v) == IF ~status_handler THEN "none" ELSE IF v THEN "up" ELSE "down"

\* connect(), lines 65-69: sleep the backoff, or leave the loop
AfterFailure(sr) == IF sr THEN "backoff" ELSE "idle"

\* disconnect() leaving the flag as it is
DisconnectFlag_keep == should_reconnect

\* disconnect(), line 73
DisconnectFlag == FALSE

\* request_metrics_updates(), line 85
MetricsLoopCond == should_reconnect

\* variant of SendMessageRaises: the failure reaches the caller
SendMessageRaises_propagates == TRUE

\* send_message(), lines 118-122: `except Exception` keeps every failure of
\* websocket.send inside send_message; nothing is raised to the caller
SendMessageRaises == FALSE

\* request_metrics_updates() after a failed send: with the failure kept inside
\* send_message the task goes on to sleep(5), line 89; the except branch,
\* lines 90-98 (empty metrics_update, sleep(1)), needs an exception
MetricsAfterFailure == IF SendMessageRaises THEN "retry" ELSE "sleep"
MetricsFailureMsg ==
    IF SendMessageRaises /\ message_handler THEN "empty_metrics" ELSE "none"

\* connect(), line 41
MetricsTaskAbsent == metrics_task = "None"

NetInit ==
    /\ should_reconnect = FALSE
    /\ connected = FALSE
    /\ websocket = 0
    /\ metrics_task = "None"
    /\ pcC = [i \in Loops |-> "idle"]
    /\ lsock = [i \in Loops |-> 0]
    /\ msock = 0
    /\ pcD = "idle"
    /\ sock = [s \in Socks |-> "free"]
    /\ ui_status = "unknown"
    /\ emitted = Quiet
    /\ since = [i \in Loops |-> NoEvent]
    /\ discDone = "no"
    /\ dRow = FALSE
    /\ dSecond = FALSE
    /\ firstFrame = "none"

\* recv() called on a socket another coroutine is already waiting on raises
\* at once (the websockets library allows one recv() at a time per socket)
RecvBusy(i, s) == \E j \in Loops \ {i} : pcC[j] = "listening" /\ lsock[j] = s

\* _listen() reaches `await self.websocket.recv()` (lines 103-105) with
\* connected = c, or recv() raises at once and the listener is left through
\* line 111; f: a send failed earlier in the same step
EnterListen(i, c, f) ==
    /\ IF RecvBusy(i, websocket)
       THEN /\ connected' = FALSE
            /\ lsock' = [lsock EXCEPT ![i] = 0]
            /\ pcC' = [pcC EXCEPT ![i] = HeadPc(should_reconnect, FALSE)]
            /\ emitted' = [Quiet EXCEPT !.attempt = should_reconnect,
                                        !.fault = f]
            /\ since' = [since EXCEPT ![i] =
                            [ev |-> "error", disc |-> TRUE, status |-> FALSE,
                             cancel |-> FALSE, empty |-> 0]]
       ELSE /\ connected' = c
            /\ lsock' = [lsock EXCEPT ![i] = websocket]
            /\ pcC' = [pcC EXCEPT ![i] = "listening"]
            /\ emitted' = [Quiet EXCEPT !.fault = f]
            /\ UNCHANGED since
    /\ sock' = Norm(sock, websocket, lsock', msock)

\* connect() is started: lines 19-26, up to `await websockets.connect`
CallConnect(i) ==
    /\ UNCHANGED <<recVars, firstFrame, rx>>
    /\ ~Frozen
    /\ pcC[i] = "idle"
    /\ should_reconnect' = TRUE
    /\ pcC' = [pcC EXCEPT ![i] = HeadPc(TRUE, connected)]
    /\ emitted' = [Quiet EXCEPT !.attempt = ~connected]
    /\ since' = [since EXCEPT ![i] = NoEvent]
    /\ discDone' = "no"
    /\ dRow' = FALSE
    /\ UNCHANGED <<connected, websocket, metrics_task, lsock, msock, pcD, sock,
                   ui_status, dSecond>>

\* websockets.connect returned a socket: lines 26-38, up to the await of the
\* send of the connect frame
OpenOk(i) ==
    /\ UNCHANGED <<recVars, rx>>
    /\ ~Frozen
    /\ pcC[i] = "opening"
    /\ LET s == NewSock(websocket, lsock, msock)
           ls == [lsock EXCEPT ![i] = s]
       IN /\ websocket' = s
          /\ lsock' = ls
          /\ sock' = Norm([sock EXCEPT ![s] = "open"], s, ls, msock)
    /\ connected' = TRUE
    /\ ui_status' = Notify(TRUE)
    /\ pcC' = [pcC EXCEPT ![i] = "sendConnect"]
    /\ emitted' = [Quiet EXCEPT !.frame = ConnectMessage.type,
                                !.body = Encode(ConnectMessage),
                                !.status = Notified(TRUE)]
    /\ firstFrame' = ConnectMessage.type
    /\ since' = [since EXCEPT ![i] = NoEvent]
    /\ dRow' = FALSE
    /\ UNCHANGED <<should_reconnect, metrics_task, msock, pcD, discDone,
                   dSecond>>

\* websockets.connect raised: the except branch, lines 47-63, up to the await
\* of the message handler
OpenFail(i) ==
    /\ UNCHANGED <<recVars, firstFrame, rx>>
    /\ ~Frozen
    /\ pcC[i] = "opening"
    /\ connected' = FALSE
    /\ ui_status' = Notify(FALSE)
    /\ metrics_task' = "None"
    /\ msock' = 0
    /\ sock' = Norm(sock, websocket, lsock, 0)
    /\ pcC' = [pcC EXCEPT ![i] = IF message_handler THEN "resetting"
                                 ELSE AfterFailure(should_reconnect)]
    /\ emitted' = [Quiet EXCEPT !.msg = IF message_handler THEN "empty_metrics"
                                        ELSE "none",
                                !.status = Notified(FALSE),
                                !.fault = TRUE]
    /\ since' = [BumpEmpty(since) EXCEPT ![i] =
                    [ev |-> "fail", disc |-> TRUE, status |-> status_handler,
                     cancel |-> TRUE,
                     empty |-> IF message_handler THEN 1 ELSE 0]]
    /\ dRow' = FALSE
    /\ UNCHANGED <<should_reconnect, websocket, lsock, pcD, discDone, dSecond>>

\* the message handler returned in the except branch: lines 65-69
ResetDone(i) ==
    /\ UNCHANGED <<recVars, firstFrame, rx>>
    /\ ~Frozen
    /\ pcC[i] = "resetting"
    /\ pcC' = [pcC EXCEPT ![i] = AfterFailure(should_reconnect)]
    /\ emitted' = Quiet
    /\ dRow' = FALSE
    /\ UNCHANGED <<should_reconnect, connected, websocket, metrics_task, lsock,
                   msock, pcD, sock, ui_status, since, discDone,
                   dSecond>>

\* asyncio.sleep(reconnect_interval) is over: back to the loop head, line 23
BackoffWake(i) ==
    /\ UNCHANGED <<recVars, firstFrame, rx>>
    /\ ~Frozen
    /\ pcC[i] = "backoff"
    /\ pcC' = [pcC EXCEPT ![i] = HeadPc(should_reconnect, connected)]
    /\ emitted' = [Quiet EXCEPT !.attempt = should_reconnect /\ ~connected]
    /\ dRow' = FALSE
    /\ UNCHANGED <<should_reconnect, connected, websocket, metrics_task, lsock,
                   msock, pcD, sock, ui_status, since, discDone,
                   dSecond>>

\* the send of the connect frame is over (send_message swallows a failure and
\* clears connected): lines 35-45 and 100-105, up to `await recv()`
SendConnectDone(i) ==
    /\ UNCHANGED <<recVars, firstFrame, rx>>
    /\ ~Frozen
    /\ pcC[i] = "sendConnect"
    /\ metrics_task' = IF MetricsTaskAbsent THEN "created" ELSE metrics_task
    /\ EnterListen(i, IF sock[lsock[i]] = "open" THEN connected ELSE FALSE,
                   sock[lsock[i]] # "open")
    /\ dRow' = FALSE
    /\ UNCHANGED <<should_reconnect, websocket, msock, pcD, ui_status,
                   discDone, dSecond>>

\* _listen() returns after an exception (lines 108-113) and connect() goes on
\* at its loop head (line 23): no exception reaches connect()'s except branch
ListenerExit(i, cause) ==
    /\ connected' = FALSE
    /\ lsock' = [lsock EXCEPT ![i] = 0]
    /\ sock' = Norm(sock, websocket, lsock', msock)
    /\ pcC' = [pcC EXCEPT ![i] = HeadPc(should_reconnect, FALSE)]
    /\ emitted' = [Quiet EXCEPT !.attempt = should_reconnect,
                                !.fault = (cause = "closed")]
    /\ since' = [since EXCEPT ![i] =
                    [ev |-> cause, disc |-> ~connected', status |-> FALSE,
                     cancel |-> FALSE, empty |-> 0]]
    /\ dRow' = FALSE
    /\ UNCHANGED <<should_reconnect, websocket, metrics_task, msock, pcD,
                   ui_status, discDone, dSecond>>

\* recv() returned a frame: lines 105-107. A frame that json.loads rejects
\* ends the listener (line 111) with the socket still open.
RecvFrame(i, wellFormed) ==
    /\ UNCHANGED <<recVars, firstFrame>>
    /\ ~Frozen
    /\ pcC[i] = "listening"
    /\ sock[lsock[i]] = "open"
    /\ rx.on => rx.next <= MaxFrames
    /\ rx' = IF ~rx.on THEN rx
             ELSE [rx EXCEPT
                     !.next = @ + 1,
                     !.arrived = IF wellFormed THEN Append(@, rx.next) ELSE @,
                     !.handled = IF wellFormed /\ message_handler
                                 THEN Dispatch(@, rx.next) ELSE @,
                     !.busy = wellFormed /\ message_handler]
    /\ IF wellFormed
       THEN /\ pcC' = [pcC EXCEPT ![i] = IF message_handler THEN "dispatching"
                                         ELSE "listening"]
            /\ lsock' = IF message_handler THEN lsock
                        ELSE [lsock EXCEPT ![i] = websocket]
            /\ sock' = Norm(sock, websocket, lsock', msock)
            /\ emitted' = [Quiet EXCEPT !.msg = IF message_handler THEN "server"
                                                ELSE "none"]
            /\ dRow' = FALSE
            /\ UNCHANGED <<should_reconnect, connected, websocket, metrics_task,
                           msock, pcD, ui_status, since, discDone,
                           dSecond>>
       ELSE ListenerExit(i, "error")

\* recv() raised ConnectionClosed: lines 108-110
RecvClosed(i) ==
    /\ UNCHANGED <<recVars, firstFrame, rx>>
    /\ ~Frozen
    /\ pcC[i] = "listening"
    /\ sock[lsock[i]] = "closed"
    /\ ListenerExit(i, "closed")

\* the message handler returned: next iteration of `while True`, line 103
DispatchDone(i) ==
    /\ UNCHANGED <<recVars, firstFrame>>
    /\ ~Frozen
    /\ pcC[i] = "dispatching"
    /\ rx' = [rx EXCEPT !.busy = FALSE]
    /\ EnterListen(i, connected, FALSE)
    /\ dRow' = FALSE
    /\ UNCHANGED <<should_reconnect, websocket, metrics_task, msock,
                   pcD, ui_status, discDone, dSecond>>

\* the peer or the network drops a connection
SocketFail(s) ==
    /\ UNCHANGED <<recVars, firstFrame, rx>>
    /\ sock[s] = "open"
    /\ sock' = [sock EXCEPT ![s] = "closed"]
    /\ emitted' = Quiet
    /\ dRow' = FALSE
    /\ UNCHANGED <<should_reconnect, connected, websocket, metrics_task, pcC,
                   lsock, msock, pcD, ui_status, since, discDone,
                   dSecond>>

\* request_metrics_updates() runs from its start or from the end of a sleep to
\* its next await: lines 85-89. send_message (lines 115-122) swallows a send
\* failure and clears connected, so the except branch of lines 90-98 is never
\* entered; cancel() ends the task at its await (CancelledError is no
\* Exception).
MetricsRun ==
    /\ UNCHANGED <<recVars, rx>>
    /\ ~Frozen
    /\ metrics_task \in {"created", "sleep", "retry"}
    /\ IF ~MetricsLoopCond
       THEN /\ metrics_task' = "finished"
            /\ emitted' = Quiet
            /\ UNCHANGED <<connected, msock, firstFrame>>
       ELSE IF connected /\ websocket # 0
       THEN IF sock[websocket] = "open"
            THEN /\ metrics_task' = "send"
                 /\ msock' = websocket
                 /\ emitted' = [Quiet EXCEPT !.frame = "request_metrics"]
                 /\ firstFrame' = FirstOf(firstFrame, "request_metrics")
                 /\ UNCHANGED connected
            ELSE /\ metrics_task' = MetricsAfterFailure
                 /\ connected' = (connected /\ SendMessageRaises)
                 /\ emitted' = [Quiet EXCEPT !.fault = ~SendMessageRaises,
                                             !.msg = MetricsFailureMsg]
                 /\ UNCHANGED <<msock, firstFrame>>
       ELSE /\ metrics_task' = "sleep"
            /\ emitted' = Quiet
            /\ UNCHANGED <<connected, msock, firstFrame>>
    /\ dRow' = FALSE
    /\ UNCHANGED <<should_reconnect, websocket, pcC, lsock, pcD, sock, ui_status, since, discDone, dSecond>>

\* the send of request_metrics is over: lines 119-122, then sleep(5), line 89
MetricsSendDone ==
    /\ UNCHANGED <<recVars, firstFrame, rx>>
    /\ ~Frozen
    /\ metrics_task = "send"
    /\ connected' = IF sock[msock] = "open" THEN connected
                     ELSE (connected /\ SendMessageRaises)
    /\ metrics_task' = IF sock[msock] = "open" THEN "sleep"
                       ELSE MetricsAfterFailure
    /\ msock' = 0
    /\ sock' = Norm(sock, websocket, lsock, 0)
    /\ emitted' = IF sock[msock] = "open" THEN Quiet
                  ELSE [Quiet EXCEPT !.fault = ~SendMessageRaises,
                                     !.msg = MetricsFailureMsg]
    /\ dRow' = FALSE
    /\ UNCHANGED <<should_reconnect, websocket, pcC, lsock, pcD, ui_status, since, discDone, dSecond>>

\* disconnect() is started: lines 73-75, up to `await self.websocket.close()`;
\* with no socket it returns at once
CallDisconnect ==
    /\ UNCHANGED <<recVars, firstFrame, rx>>
    /\ ~Frozen
    /\ pcD = "idle"
    /\ should_reconnect' = DisconnectFlag
    /\ IF websocket # 0
       THEN /\ sock' = [sock EXCEPT ![websocket] = "closed"]
            /\ pcD' = "closing"
            /\ dRow' = FALSE
            /\ dSecond' = dRow
            /\ discDone' = "running"
       ELSE /\ dRow' = TRUE
            /\ dSecond' = FALSE
            /\ discDone' = "done"
            /\ UNCHANGED <<sock, pcD>>
    /\ emitted' = Quiet
    /\ UNCHANGED <<connected, websocket, metrics_task, pcC, lsock, msock,
                   ui_status, since>>

\* close() returned: lines 76-81
DisconnectDone ==
    /\ UNCHANGED <<recVars, firstFrame, rx>>
    /\ ~Frozen
    /\ pcD = "closing"
    /\ connected' = FALSE
    /\ ui_status' = Notify(FALSE)
    /\ pcD' = "idle"
    /\ discDone' = IF discDone = "running" THEN "done" ELSE discDone
    /\ dRow' = TRUE
    /\ dSecond' = FALSE
    /\ emitted' = [Quiet EXCEPT !.status = Notified(FALSE)]
    /\ UNCHANGED <<should_reconnect, websocket, metrics_task, pcC, lsock, msock,
                   sock, since>>

\* send_message(message), lines 115-122, run for the method `call`. The
\* frame is handed to the socket when websocket.send is called and a failure
\* of the socket surfaces in the same call, so the call is one step.
SendMessage(call, message) ==
    /\ UNCHANGED <<recVars, rx>>
    /\ ~Frozen
    /\ IF ~SendGuard(websocket, connected)
       THEN /\ emitted' = [Quiet EXCEPT !.call = call]
            /\ UNCHANGED <<connected, firstFrame>>
       ELSE IF sock[websocket] = "open"
       THEN /\ emitted' = [Quiet EXCEPT !.call = call,
                                        !.frame = message.type,
                                        !.body = Encode(message)]
            /\ firstFrame' = FirstOf(firstFrame, message.type)
            /\ UNCHANGED connected
       ELSE /\ emitted' = [Quiet EXCEPT !.call = call,
                                        !.fault = ~SendMessageRaises,
                                        !.raised = SendMessageRaises]
            /\ connected' = (connected /\ SendMessageRaises)
            /\ UNCHANGED firstFrame
    /\ dRow' = FALSE
    /\ UNCHANGED <<should_reconnect, websocket, metrics_task, pcC, lsock, msock,
                   pcD, sock, ui_status, since, discDone, dSecond>>

\* the transcripts and display names of the runs
Transcripts == {[text |-> "hello", language |-> "en"],
                [text |-> "bye", language |-> "en"]}
Names == {"alice", "bob"}

\* send_transcript(transcript, preferred_name), lines 128-137
SendTranscript(transcript, preferred_name) ==
    SendMessage([NoCall EXCEPT !.op = "send_transcript",
                               !.name = preferred_name,
                               !.text = transcript.text],
                TranscriptMessage(transcript, preferred_name))

\* send_action(action), lines 139-145
SendAction(action) ==
    SendMessage([NoCall EXCEPT !.op = "send_action", !.kind = action.type],
                ActionMessage(action))

\* ------------------------------------------- HotkeyManager and AudioCapture

\* the action kinds main_window.py binds hotkeys for (two of the four)
Actions == {"tts", "follows"}
PttKeys == {"", "alt"}
EngineOutcomes == {"segments", "nospeech", "raise"}

\* main_window.py sets both callbacks and starts the loop thread before it
\* starts the hotkey manager
callback == TRUE
action_callback == TRUE
LoopIsRunning == TRUE

NoRecEv == [op |-> "none", starts |-> 0, stops |-> 0, ret |-> <<>>,
            sched |-> <<>>, fired |-> "none", openFailed |-> FALSE,
            outcome |-> "none", calls |-> <<>>, result |-> "None",
            raised |-> FALSE, arg |-> -1, ok |-> FALSE, listed |-> <<>>]

\* a key-down that flips the state in either mode
OnKeyPressRec_flip(m, rec) == ~rec

\* _on_key_press: the value it leaves in self.is_recording
OnKeyPressRec(m, rec) ==
    IF m = "push" THEN (IF ~rec THEN TRUE ELSE rec)
    ELSE IF m = "toggle" THEN (IF ~rec THEN TRUE ELSE FALSE)
    ELSE rec

\* a key-up that ends the recording in either mode
OnKeyReleaseRec_anyMode(m, rec) == FALSE

\* _on_key_release: the value it leaves in self.is_recording
OnKeyReleaseRec(m, rec) ==
    IF m = "push" THEN (IF rec THEN FALSE ELSE rec) ELSE rec

\* the hook lambdas all bound to the action of the last hook installed
ActionEvent_lateBound(a) == [co |-> "action_callback", arg |-> "follows"]

\* _on_action_key: the coroutine it submits to the loop
ActionEvent(a) == [co |-> "action_callback", arg |-> a]

ProcessTask == [co |-> "_process_audio", arg |-> "none"]
TranscriptTask == [co |-> "callback", arg |-> "transcript"]

\* a queue that hands out the newest chunk first
CallbackPut_front(q, c) == <<c>> \o q

\* _audio_callback: self.audio_queue.put(indata.copy())
CallbackPut(q, c) == Append(q, c)

\* stop_recording(): the value it returns; <<>> stands for None. The queue is
\* drained oldest first and the chunks are concatenated in that order.
StopRet == IF capture_is_recording THEN audio_queue ELSE <<>>

\* main_window.py lines 78-79 set both notification callbacks
on_recording_start == TRUE
on_recording_stop == TRUE

\* stop_recording(), lines 118-141: the notification it fires. With the queue
\* empty it returns None at line 133, ahead of the callback at lines 139-140
StopFires ==
    IF capture_is_recording /\ audio_queue # <<>> /\ on_recording_stop
    THEN "stop" ELSE "none"

\* start_recording(), lines 96-114: sd.InputStream(...) or stream.start()
\* raised and the except branch ran
StartFails(opened) == ~capture_is_recording /\ ~opened

\* start_recording() that notifies before it opens the stream
StartFires_early(opened) ==
    IF ~capture_is_recording /\ on_recording_start THEN "start" ELSE "none"

\* start_recording(), lines 91-110: the notification it fires, after
\* stream.start() returned
StartFires(opened) ==
    IF ~capture_is_recording /\ opened /\ on_recording_start
    THEN "start" ELSE "none"

\* stop_recording() without the guard of lines 118-119
StopRecording_unguarded ==
    /\ capture_is_recording' = FALSE
    /\ stream' = "stopped"
    /\ audio_queue' = <<>>

\* stop_recording() that leaves the queued chunks in the queue
StopRecording_keepQueue ==
    IF capture_is_recording
    THEN /\ capture_is_recording' = FALSE
         /\ stream' = "stopped"
         /\ UNCHANGED audio_queue
    ELSE UNCHANGED <<capture_is_recording, stream, audio_queue>>

\* stop_recording(): its effect on the AudioCapture
StopRecording ==
    IF capture_is_recording
    THEN /\ capture_is_recording' = FALSE
         /\ stream' = "stopped"
         /\ audio_queue' = <<>>
    ELSE UNCHANGED <<capture_is_recording, stream, audio_queue>>

\* start_recording() without the guard of lines 91-92
StartRecording_restart(opened) ==
    /\ capture_is_recording' = opened
    /\ audio_queue' = <<>>
    /\ stream' = IF opened THEN "active" ELSE stream
    /\ stream_device' = IF opened THEN selected_device ELSE stream_device
    /\ session' = IF opened THEN <<>> ELSE session

\* start_recording(): opened tells whether the input stream could be opened
\* and started
StartRecording(opened) ==
    IF capture_is_recording
    THEN UNCHANGED <<capture_is_recording, stream, audio_queue, session,
                     stream_device>>
    ELSE /\ capture_is_recording' = opened
         /\ audio_queue' = <<>>
         /\ stream' = IF opened THEN "active" ELSE stream
         /\ stream_device' = IF opened THEN selected_device ELSE stream_device
         /\ session' = IF opened THEN <<>> ELSE session

\* key names a caller may pass; "None" is Python's None
KeyNames == {"", "None", "alt", "f9", "bogus"}

\* keyboard.on_press_key / on_release_key look the key name up and raise
\* ValueError for a name the library maps to no key
Mapped(k) == k \in {"alt", "f9"}

\* the keys main_window.py reads from the configuration for an action
ActionKeys == {"", "f9"}
NoHotkeys == [a \in Actions |-> ""]

\* set_action_hotkeys(), line 48: only the non-empty hotkeys are stored
FilterHotkeys(hotkeys) ==
    [a \in Actions |-> IF hotkeys[a] \in {"", "None"} THEN "" ELSE hotkeys[a]]

\* the order in which start() walks self.action_hotkeys.items()
ActionOrder == <<"tts", "follows">>

\* start(), lines 65-68: the hooks of the actions from the i-th on, added to
\* hs; the loop ends at the first key the library rejects
RECURSIVE InstallActions(_, _, _)
InstallActions(hs, ah, i) ==
    IF i > Len(ActionOrder) THEN [hooks |-> hs, ok |-> TRUE]
    ELSE LET a == ActionOrder[i]
         IN IF ah[a] = "" THEN InstallActions(hs, ah, i + 1)
            ELSE IF ~Mapped(ah[a]) THEN [hooks |-> hs, ok |-> FALSE]
            ELSE InstallActions(hs \cup {[key |-> ah[a], on |-> a]}, ah, i + 1)

\* start(), lines 58-70, after stop() removed every hook: the hooks it
\* installs for a configuration and whether it reached line 70
InstallHooks(k, ah) ==
    IF k = "" THEN InstallActions({}, ah, 1)
    ELSE IF ~Mapped(k) THEN [hooks |-> {}, ok |-> FALSE]
    ELSE InstallActions({[key |-> k, on |-> "press"],
                         [key |-> k, on |-> "release"]}, ah, 1)

\* no handler, no stop_recording() and no stop() or start() is part-way
\* through; nothing was discarded or returned
ThIdle == [hk |-> "idle", lp |-> "idle", ui |-> "idle", restart |-> FALSE,
           cleared |-> {}, returned |-> {}]

\* HotkeyManager.__init__ (lines 10-20) and AudioCapture.__init__ (lines
\* 13-22), then the configured keys main_window.py stores (lines 50-56)
RecInit ==
    /\ mode = "push"
    /\ is_recording = FALSE
    /\ push_to_talk_key \in PttKeys
    /\ action_hotkeys \in [Actions -> ActionKeys]
    /\ hooks = {}
    /\ hooks_active = FALSE
    /\ loop = "None"
    /\ capture_is_recording = FALSE
    /\ audio_queue = <<>>
    /\ stream = "none"
    /\ pending = 0
    /\ nextChunk = 1
    /\ recEv = NoRecEv
    /\ lastKey = "none"
    /\ session = <<>>
    /\ curPair = <<>>
    /\ pairs = <<>>
    /\ processed = <<>>
    /\ pushRun = TRUE
    /\ th = ThIdle

\* ---- the audio devices
NoDevice == -1
\* device ids a caller may pass; the last one is never a listed device
DeviceIds == 0..MaxDevices
\* max_input_channels of a device: an output-only device has 0
Channels == {0, 2}
DeviceTables == UNION {[1..n -> Channels] : n \in 0..MaxDevices}
OneMic == <<2>>

\* sd.query_devices(device_id) answers for a listed device and raises for
\* any other id
Queryable(devs, device_id) == device_id \in 0..(Len(devs) - 1)

\* set_device() that accepts every device it can query
SetDeviceOk_anyDevice(devs, device_id) == Queryable(devs, device_id)

\* set_device(), lines 75-87: the value it returns
SetDeviceOk(devs, device_id) ==
    Queryable(devs, device_id) /\ devs[device_id + 1] > 0

DeviceName(i) == <<"name", i, "hostapi">>

\* list_input_devices() that numbers the devices it returns from 0
RECURSIVE ListFrom_renumbered(_, _, _)
ListFrom_renumbered(devs, i, acc) ==
    IF i >= Len(devs) THEN acc
    ELSE ListFrom_renumbered(devs, i + 1,
            IF devs[i + 1] > 0
            THEN Append(acc, [id |-> Len(acc), name |-> DeviceName(i),
                              channels |-> devs[i + 1]])
            ELSE acc)

\* list_input_devices(), lines 65-71: the loop over enumerate(
\* sd.query_devices()) from index i on, acc being the list so far
RECURSIVE ListFrom(_, _, _)
ListFrom(devs, i, acc) ==
    IF i >= Len(devs) THEN acc
    ELSE ListFrom(devs, i + 1,
            IF devs[i + 1] > 0
            THEN Append(acc, [id |-> i, name |-> DeviceName(i),
                              channels |-> devs[i + 1]])
            ELSE acc)

ListInputDevices(devs) == ListFrom(devs, 0, <<>>)

\* the default input device of the host: its first input device
DefaultInput(devs) ==
    IF \E i \in 0..(Len(devs) - 1) : devs[i + 1] > 0
    THEN CHOOSE i \in 0..(Len(devs) - 1) :
            /\ devs[i + 1] > 0
            /\ \A j \in 0..(i - 1) : devs[j + 1] = 0
    ELSE NoDevice

\* AudioCapture.__init__, lines 19-20 with _setup_device, lines 50-61: pref
\* is the saved preference. A saved device is handed to set_device(), whose
\* result is not looked at; with none saved the default input is taken
CapInit ==
    /\ devices \in DeviceTables
    /\ \E pref \in {NoDevice} \cup DeviceIds :
          /\ selected_device = IF pref # NoDevice THEN pref
                               ELSE DefaultInput(devices)
          /\ sd_default_device = IF pref # NoDevice /\ SetDeviceOk(devices, pref)
                                 THEN pref ELSE DefaultInput(devices)
    /\ stream_device = NoDevice

EngineOff == [on |-> FALSE, failed |-> FALSE, last |-> "none", alt |-> TRUE]
EngineOn == [on |-> TRUE, failed |-> FALSE, last |-> "none", alt |-> TRUE]

Init ==
    /\ NetInit /\ RecInit /\ rx = RxOff /\ engine = EngineOff
    /\ CapInit /\ devices = OneMic /\ selected_device = 0

\* the window as constructed with the default key and no action hotkeys, the
\* start of the network runs
InitIdle == Init /\ push_to_talk_key = "alt" /\ action_hotkeys = NoHotkeys

\* a handler that waits for the result of the coroutine it submitted: the
\* task is done by the time the handler returns
Submitted_waits(submit, p) == p

\* asyncio.run_coroutine_threadsafe (lines 108 and 119): the coroutine is
\* queued on the loop and the Future it returns is dropped, so the handler
\* returns with the task still to be run
Submitted(submit, p) == IF submit THEN p + 1 ELSE p

\* _on_key_press runs on the keyboard-hook thread: lines 92-109
KeyPress ==
    /\ UNCHANGED <<netVars, th, devVars>>
    /\ UNCHANGED engine
    /\ \E h \in hooks : h.on = "press"
    /\ LET starting == ~is_recording /\ mode \in {"push", "toggle"}
           stopping == is_recording /\ mode = "toggle"
           submit == stopping /\ loop # "None" /\ LoopIsRunning
       IN /\ is_recording' = OnKeyPressRec(mode, is_recording)
          /\ IF starting
             THEN \E opened \in BOOLEAN :
                     /\ StartRecording(opened)
                     /\ recEv' = [NoRecEv EXCEPT
                                     !.op = "press", !.starts = 1,
                                     !.fired = StartFires(opened),
                                     !.openFailed = StartFails(opened)]
             ELSE /\ UNCHANGED <<capture_is_recording, stream, audio_queue,
                                 session, stream_device>>
                  /\ recEv' = [NoRecEv EXCEPT
                                  !.op = "press",
                                  !.sched = IF submit THEN <<ProcessTask>>
                                            ELSE <<>>]
          /\ submit => pending < MaxPending
          /\ pending' = Submitted(submit, pending)
          /\ curPair' = IF starting THEN <<>> ELSE curPair
    /\ lastKey' = "down"
    /\ UNCHANGED <<mode, push_to_talk_key, action_hotkeys, hooks, hooks_active,
                   loop, nextChunk, pairs, processed, pushRun>>

\* _on_key_release runs on the keyboard-hook thread: lines 111-120
KeyRelease ==
    /\ UNCHANGED <<netVars, th, devVars>>
    /\ UNCHANGED <<engine, stream_device>>
    /\ \E h \in hooks : h.on = "release"
    /\ LET stopping == mode = "push" /\ is_recording
           submit == stopping /\ loop # "None" /\ LoopIsRunning
       IN /\ is_recording' = OnKeyReleaseRec(mode, is_recording)
          /\ submit => pending < MaxPending
          /\ pending' = Submitted(submit, pending)
          /\ recEv' = [NoRecEv EXCEPT !.op = "release",
                                      !.sched = IF submit THEN <<ProcessTask>>
                                                ELSE <<>>]
          /\ pairs' = IF stopping /\ curPair # <<>> THEN Append(pairs, curPair)
                      ELSE pairs
    /\ lastKey' = "up"
    /\ UNCHANGED <<mode, push_to_talk_key, action_hotkeys, hooks, hooks_active,
                   loop, capture_is_recording, audio_queue, stream, nextChunk,
                   session, curPair, processed, pushRun>>

\* _on_action_key runs on the keyboard-hook thread: lines 72-82
ActionKey(a) ==
    /\ UNCHANGED <<netVars, th, devVars>>
    /\ UNCHANGED <<engine, stream_device>>
    /\ \E h \in hooks : h.on = a
    /\ LET submit == action_callback /\ loop # "None" /\ LoopIsRunning
       IN recEv' = [NoRecEv EXCEPT !.op = a,
                                   !.sched = IF submit THEN <<ActionEvent(a)>>
                                             ELSE <<>>]
    /\ UNCHANGED <<mode, is_recording, push_to_talk_key, action_hotkeys, hooks,
                   hooks_active, loop, capture_is_recording, audio_queue,
                   stream, pending, nextChunk, lastKey, session, curPair,
                   pairs, processed, pushRun>>

\* _audio_callback(indata, ...), lines 148-154: the chunk is queued only
\* while self.is_recording
CallbackBody ==
    /\ UNCHANGED <<netVars, th, devVars>>
    /\ UNCHANGED <<engine, stream_device>>
    /\ nextChunk <= MaxChunks
    /\ audio_queue' = IF capture_is_recording
                      THEN CallbackPut(audio_queue, nextChunk) ELSE audio_queue
    /\ nextChunk' = nextChunk + 1
    /\ UNCHANGED <<mode, is_recording, push_to_talk_key, action_hotkeys, hooks,
                   hooks_active, loop, capture_is_recording, stream, pending,
                   lastKey, pairs, processed, pushRun>>

\* the device delivers a chunk to _audio_callback on the audio thread: lines
\* 148-154
AudioCallback ==
    /\ stream = "active"
    /\ CallbackBody
    /\ recEv' = [NoRecEv EXCEPT !.op = "chunk"]
    /\ session' = Append(session, nextChunk)
    /\ curPair' = IF lastKey = "down" /\ mode = "push"
                  THEN Append(curPair, nextChunk) ELSE curPair

\* _audio_callback called with no stream running (a chunk that arrives after
\* a start that failed, or after the stream was stopped): lines 148-154. The
\* observation keeps openFailed when the call directly follows a failed start
StrayCallback ==
    /\ stream # "active"
    /\ CallbackBody
    /\ recEv' = [NoRecEv EXCEPT !.op = "chunk",
                                !.openFailed = recEv.openFailed]
    /\ UNCHANGED <<session, curPair>>

\* main_window.py lines 82-83 set both processing callbacks
on_processing_start == TRUE
on_processing_end == TRUE

\* process_audio() that skips the end notification when the engine raises
ProcessCalls_noFinally(audio_data, outcome) ==
    IF audio_data = <<>> THEN <<>>
    ELSE <<"on_processing_start", "transcribe">>
         \o (IF outcome = "segments" THEN <<"align">> ELSE <<>>)
         \o (IF outcome # "raise" THEN <<"on_processing_end">> ELSE <<>>)

\* process_audio() that returns on a no-speech result before its end
\* notification
ProcessCalls_silentEnd(audio_data, outcome) ==
    IF audio_data = <<>> THEN <<>>
    ELSE <<"on_processing_start", "transcribe">>
         \o (IF outcome = "segments" THEN <<"align">> ELSE <<>>)
         \o (IF outcome # "nospeech" THEN <<"on_processing_end">> ELSE <<>>)

\* process_audio(audio_data), processor.py lines 70-118: the calls it makes,
\* in order. An empty buffer returns at line 72; else on_processing_start
\* (74-75), model.transcribe (85), whisperx.align when there are segments
\* (88-98), and on_processing_end in the finally block (116-118)
ProcessCalls(audio_data, outcome) ==
    IF audio_data = <<>> THEN <<>>
    ELSE (IF on_processing_start THEN <<"on_processing_start">> ELSE <<>>)
         \o <<"transcribe">>
         \o (IF outcome = "segments" THEN <<"align">> ELSE <<>>)
         \o (IF on_processing_end THEN <<"on_processing_end">> ELSE <<>>)

\* the processing notifications among the calls of process_audio()
IsNotice(c) == c \in {"on_processing_start", "on_processing_end"}
Notices(calls) == SelectSeq(calls, IsNotice)

\* main_window.py lines 616-622: the observer of on_processing_start and
\* on_processing_end receives the notifications ns in order; it remembers
\* the latest and whether each one differed from the one before, a start
\* coming first
RECURSIVE Observe(_, _)
Observe(e, ns) ==
    IF ns = <<>> THEN e
    ELSE Observe([e EXCEPT
                     !.last = Head(ns),
                     !.alt = /\ e.alt
                             /\ IF Head(ns) = "on_processing_start"
                                THEN e.last \in {"none", "on_processing_end"}
                                ELSE e.last = "on_processing_start"],
                 Tail(ns))

\* process_audio() that hands back the error text as a transcript
ProcessResult_errorText(audio_data, outcome) ==
    IF audio_data # <<>> /\ outcome \in {"segments", "raise"}
    THEN "transcript" ELSE "None"

\* process_audio(audio_data), processor.py lines 70-114: the value returned.
\* A transcript only when the engine reported segments (88, 103-107); None
\* for an empty buffer (72), no speech (110) and an exception (112-114)
ProcessResult(audio_data, outcome) ==
    IF audio_data # <<>> /\ outcome = "segments" THEN "transcript" ELSE "None"

\* _process_audio(), hotkey.py lines 124-136: process_audio catches what the
\* engine raises and the try/except of _process_audio catches the rest
ProcessTaskRaises == FALSE

\* _process_audio() that submits the callback whatever the result
SubmitTranscript_always(result) == callback

\* _process_audio(), hotkey.py line 129: `if result and self.callback`
SubmitTranscript(result) == result # "None" /\ callback

\* the loop runs a submitted _process_audio(): hotkey.py lines 122-136 with
\* processor.py lines 65-118 (process_audio never suspends and catches what
\* the engine raises)
RunProcess(outcome) ==
    /\ UNCHANGED <<netVars, th, devVars>>
    /\ UNCHANGED stream_device
    /\ pending > 0
    /\ LET audio_data == StopRet
           result == ProcessResult(audio_data, outcome)
           submit == SubmitTranscript(result)
       IN /\ audio_data = <<>> => outcome = "nospeech"
          /\ StopRecording
          /\ processed' = IF audio_data # <<>> THEN Append(processed, audio_data)
                          ELSE processed
          /\ pending' = pending - 1
          /\ engine' = IF ~engine.on THEN engine
                       ELSE Observe([engine EXCEPT
                                        !.failed = @ \/ (audio_data # <<>> /\
                                                         outcome = "raise")],
                                    Notices(ProcessCalls(audio_data, outcome)))
          /\ recEv' = [NoRecEv EXCEPT !.op = "process", !.stops = 1,
                                      !.ret = audio_data,
                                      !.fired = StopFires,
                                      !.outcome = IF audio_data # <<>>
                                                  THEN outcome ELSE "none",
                                      !.calls = ProcessCalls(audio_data, outcome),
                                      !.result = result,
                                      !.raised = ProcessTaskRaises,
                                      !.sched = IF submit THEN <<TranscriptTask>>
                                                ELSE <<>>]
    /\ UNCHANGED <<mode, is_recording, push_to_talk_key, action_hotkeys, hooks,
                   hooks_active, loop, nextChunk, lastKey, session, curPair,
                   pairs, pushRun>>

\* stop(), lines 84-90, but for the hooks: what it does to the controller
\* and the AudioCapture. op names the method that runs it and raised tells
\* whether that method ends with an exception
StopBody(op, raised) ==
    /\ is_recording' = FALSE
    /\ IF is_recording THEN StopRecording
       ELSE UNCHANGED <<capture_is_recording, stream, audio_queue>>
    /\ recEv' = [NoRecEv EXCEPT !.op = op,
                                !.stops = IF is_recording THEN 1 ELSE 0,
                                !.ret = IF is_recording THEN StopRet ELSE <<>>,
                                !.fired = IF is_recording THEN StopFires
                                          ELSE "none",
                                !.raised = raised]
    /\ lastKey' = "none"
    /\ curPair' = <<>>

\* HotkeyManager.stop(): lines 84-90
Stop ==
    /\ UNCHANGED <<netVars, th, devVars>>
    /\ UNCHANGED <<engine, stream_device>>
    /\ hooks' = {}
    /\ hooks_active' = FALSE
    /\ StopBody("stop", FALSE)
    /\ pushRun' = FALSE
    /\ UNCHANGED <<mode, push_to_talk_key, action_hotkeys, loop, pending,
                   nextChunk, session, pairs, processed>>

\* stop() then the rest of start(), lines 56-70, for the configuration
\* (k, ah): the hooks end as far as the installation got, and
\* _hooks_active is set only at line 70
Restart(op, k, ah) ==
    LET r == InstallHooks(k, ah)
    IN /\ StopBody(op, ~r.ok)
       /\ hooks' = r.hooks
       /\ hooks_active' = r.ok

\* HotkeyManager.start(loop): lines 53-70
Start ==
    /\ UNCHANGED <<netVars, th, devVars>>
    /\ UNCHANGED <<engine, stream_device>>
    /\ loop' = "running"
    /\ Restart("start", push_to_talk_key, action_hotkeys)
    /\ pushRun' = (pushRun /\ ~hooks_active)
    /\ UNCHANGED <<mode, push_to_talk_key, action_hotkeys, pending, nextChunk,
                   session, pairs, processed>>

\* set_mode(mode), lines 34-40: store the mode and, with hooks installed,
\* stop() then start(self.loop)
SetMode(m) ==
    /\ UNCHANGED <<netVars, th, devVars>>
    /\ UNCHANGED <<engine, stream_device>>
    /\ mode' = m
    /\ pushRun' = FALSE
    /\ IF hooks_active /\ loop # "None"
       THEN Restart("set_mode", push_to_talk_key, action_hotkeys)
       ELSE /\ recEv' = [NoRecEv EXCEPT !.op = "set_mode"]
            /\ UNCHANGED <<is_recording, capture_is_recording, stream,
                           audio_queue, lastKey, curPair, hooks, hooks_active>>
    /\ UNCHANGED <<push_to_talk_key, action_hotkeys, loop, pending, nextChunk,
                   session, pairs, processed>>

\* set_hotkey(new_key), lines 26-32
SetHotkey(new_key) ==
    /\ UNCHANGED <<netVars, th, devVars>>
    /\ UNCHANGED <<engine, stream_device>>
    /\ push_to_talk_key' = new_key
    /\ pushRun' = FALSE
    /\ IF hooks_active /\ loop # "None"
       THEN Restart("set_hotkey", new_key, action_hotkeys)
       ELSE /\ recEv' = [NoRecEv EXCEPT !.op = "set_hotkey"]
            /\ UNCHANGED <<is_recording, capture_is_recording, stream,
                           audio_queue, lastKey, curPair, hooks, hooks_active>>
    /\ UNCHANGED <<mode, action_hotkeys, loop, pending, nextChunk, session,
                   pairs, processed>>

\* set_action_hotkeys(hotkeys), lines 46-51
SetActionHotkeys(hotkeys) ==
    /\ UNCHANGED <<netVars, th, devVars>>
    /\ UNCHANGED <<engine, stream_device>>
    /\ action_hotkeys' = FilterHotkeys(hotkeys)
    /\ pushRun' = FALSE
    /\ IF hooks_active /\ loop # "None"
       THEN Restart("set_action_hotkeys", push_to_talk_key,
                    FilterHotkeys(hotkeys))
       ELSE /\ recEv' = [NoRecEv EXCEPT !.op = "set_action_hotkeys"]
            /\ UNCHANGED <<is_recording, capture_is_recording, stream,
                           audio_queue, lastKey, curPair, hooks, hooks_active>>
    /\ UNCHANGED <<mode, push_to_talk_key, loop, pending, nextChunk, session,
                   pairs, processed>>

\* the variables of the HotkeyManager and of the processing handoff
mgrVars == <<mode, is_recording, push_to_talk_key, action_hotkeys, hooks,
             hooks_active, loop, pending, lastKey, curPair, pairs, processed,
             pushRun, engine>>

\* AudioCapture.start_recording() called directly: lines 89-114
CapStart(opened) ==
    /\ UNCHANGED <<netVars, th, devVars, mgrVars, nextChunk>>
    /\ StartRecording(opened)
    /\ recEv' = [NoRecEv EXCEPT !.op = "start_recording", !.starts = 1,
                                !.fired = StartFires(opened),
                                !.openFailed = StartFails(opened)]

\* AudioCapture.stop_recording() called directly: lines 116-146
CapStop ==
    /\ UNCHANGED <<netVars, th, devVars, mgrVars, nextChunk, session,
                   stream_device>>
    /\ StopRecording
    /\ recEv' = [NoRecEv EXCEPT !.op = "stop_recording", !.stops = 1,
                                !.ret = StopRet, !.fired = StopFires]

\* AudioCapture.set_device(device_id): lines 73-87
SetDevice(device_id) ==
    /\ UNCHANGED <<netVars, th, mgrVars, capture_is_recording, audio_queue,
                   stream, nextChunk, session, stream_device, devices>>
    /\ IF SetDeviceOk(devices, device_id)
       THEN /\ sd_default_device' = device_id
            /\ selected_device' = device_id
       ELSE UNCHANGED <<sd_default_device, selected_device>>
    /\ recEv' = [NoRecEv EXCEPT !.op = "set_device", !.arg = device_id,
                                !.ok = SetDeviceOk(devices, device_id)]

\* AudioCapture.list_input_devices(): lines 63-71
ListDevices ==
    /\ UNCHANGED <<netVars, th, devVars, mgrVars, capture_is_recording,
                   audio_queue, stream, nextChunk, session, stream_device>>
    /\ recEv' = [NoRecEv EXCEPT !.op = "list_input_devices",
                                !.listed = ListInputDevices(devices)]

RecNext ==
    \/ KeyPress
    \/ KeyRelease
    \/ \E a \in Actions : ActionKey(a)
    \/ AudioCallback
    \/ \E outcome \in EngineOutcomes : RunProcess(outcome)
    \/ Stop
    \/ Start
    \/ \E m \in {"push", "toggle"} : SetMode(m)

SpecRec == Init /\ [][RecNext]_vars

\* the recording runs that remember whether the engine has raised
InitProc ==
    /\ NetInit /\ RecInit /\ rx = RxOff /\ engine = EngineOn
    /\ CapInit /\ devices = OneMic /\ selected_device = 0
    /\ push_to_talk_key = "alt" /\ action_hotkeys = NoHotkeys

ProcNext ==
    \/ KeyPress
    \/ KeyRelease
    \/ AudioCallback
    \/ \E outcome \in EngineOutcomes : RunProcess(outcome)
    \/ Stop
    \/ Start
    \/ \E m \in {"push", "toggle"} : SetMode(m)

SpecProc == InitProc /\ [][ProcNext]_vars

\* AudioCapture with its methods called in any order
InitCap ==
    /\ NetInit /\ RecInit /\ rx = RxOff /\ engine = EngineOff
    /\ CapInit
    /\ push_to_talk_key = "alt" /\ action_hotkeys = NoHotkeys

CapNext ==
    \/ \E opened \in BOOLEAN : CapStart(opened)
    \/ CapStop
    \/ AudioCallback
    \/ StrayCallback
    \/ \E device_id \in DeviceIds : SetDevice(device_id)
    \/ ListDevices

SpecCap == InitCap /\ [][CapNext]_vars

\* HotkeyManager's configuration methods, with the key events
InitHooks ==
    /\ NetInit /\ RecInit /\ rx = RxOff /\ engine = EngineOff
    /\ CapInit /\ devices = OneMic /\ selected_device = 0
    /\ push_to_talk_key = "alt" /\ action_hotkeys = NoHotkeys

HooksNext ==
    \/ \E new_key \in KeyNames \ {"None"} : SetHotkey(new_key)
    \/ \E m \in {"push", "toggle"} : SetMode(m)
    \/ \E hotkeys \in [Actions -> KeyNames] : SetActionHotkeys(hotkeys)
    \/ Start
    \/ Stop
    \/ KeyPress
    \/ KeyRelease
    \/ \E a \in Actions : ActionKey(a)

\* ------------------------------------------- the threads, statement by statement
\* The key handlers run on the keyboard-hook thread, _process_audio() on the
\* event-loop thread, stop() and start() on the UI thread and _audio_callback
\* on the audio thread. No lock is taken anywhere, so the threads interleave
\* between statements; each action below is one statement or one check.
raceKeep == <<netVars, devVars, engine, stream_device, mode, push_to_talk_key,
              action_hotkeys, recEv, lastKey, session, curPair, pairs,
              processed, pushRun>>

Range(q) == {q[k] : k \in 1..Len(q)}

\* where a thread goes when its stop_recording() returns: start() goes on to
\* install the hooks
AfterStop(t) == IF t = "ui" /\ th.restart THEN "install" ELSE "idle"

\* _on_key_press, lines 94-95 and 99-100: the test of self.is_recording
HkPress ==
    /\ th.hk = "idle"
    /\ \E h \in hooks : h.on = "press"
    /\ th' = [th EXCEPT !.hk = IF ~is_recording THEN "set"
                               ELSE IF mode = "toggle" THEN "unset"
                               ELSE "idle"]
    /\ UNCHANGED <<raceKeep, is_recording, capture_is_recording, audio_queue,
                   stream, hooks, hooks_active, loop, pending, nextChunk>>

\* _on_key_press, lines 96 and 101: self.is_recording = True
HkSet ==
    /\ th.hk = "set"
    /\ is_recording' = TRUE
    /\ th' = [th EXCEPT !.hk = "guard"]
    /\ UNCHANGED <<raceKeep, capture_is_recording, audio_queue, stream, hooks,
                   hooks_active, loop, pending, nextChunk>>

\* _on_key_release, lines 113-114: the test of the mode and of
\* self.is_recording
HkRelease ==
    /\ th.hk = "idle"
    /\ \E h \in hooks : h.on = "release"
    /\ th' = [th EXCEPT !.hk = IF mode = "push" /\ is_recording THEN "unset"
                               ELSE "idle"]
    /\ UNCHANGED <<raceKeep, is_recording, capture_is_recording, audio_queue,
                   stream, hooks, hooks_active, loop, pending, nextChunk>>

\* lines 104-109 and 115-119: self.is_recording = False and the submission
\* of _process_audio() to the loop
HkUnset ==
    /\ th.hk = "unset"
    /\ is_recording' = FALSE
    /\ LET submit == loop # "None" /\ LoopIsRunning
       IN /\ submit => pending < MaxPending
          /\ pending' = Submitted(submit, pending)
    /\ th' = [th EXCEPT !.hk = "idle"]
    /\ UNCHANGED <<raceKeep, capture_is_recording, audio_queue, stream, hooks,
                   hooks_active, loop, nextChunk>>

\* start_recording(), lines 91-92, called by the handler: the guard
StartGuard ==
    /\ th.hk = "guard"
    /\ th' = [th EXCEPT !.hk = IF capture_is_recording THEN "idle" ELSE "flag"]
    /\ UNCHANGED <<raceKeep, is_recording, capture_is_recording, audio_queue,
                   stream, hooks, hooks_active, loop, pending, nextChunk>>

\* start_recording(), line 94: self.is_recording = True
StartFlag ==
    /\ th.hk = "flag"
    /\ capture_is_recording' = TRUE
    /\ th' = [th EXCEPT !.hk = "clear"]
    /\ UNCHANGED <<raceKeep, is_recording, audio_queue, stream, hooks,
                   hooks_active, loop, pending, nextChunk>>

\* start_recording(), line 95: self.audio_queue.queue.clear()
StartClear ==
    /\ th.hk = "clear"
    /\ audio_queue' = <<>>
    /\ th' = [th EXCEPT !.hk = "open",
                        !.cleared = @ \cup Range(audio_queue)]
    /\ UNCHANGED <<raceKeep, is_recording, capture_is_recording, stream, hooks,
                   hooks_active, loop, pending, nextChunk>>

\* start_recording(), lines 97-114: the stream is opened and started, or the
\* except branch clears self.is_recording
StartOpen(opened) ==
    /\ th.hk = "open"
    /\ stream' = IF opened THEN "active" ELSE stream
    /\ capture_is_recording' = IF opened THEN capture_is_recording ELSE FALSE
    /\ th' = [th EXCEPT !.hk = "idle"]
    /\ UNCHANGED <<raceKeep, is_recording, audio_queue, hooks, hooks_active,
                   loop, pending, nextChunk>>

\* the loop takes a submitted _process_audio(): hotkey.py line 125
LoopTake ==
    /\ th.lp = "idle"
    /\ pending > 0
    /\ pending' = pending - 1
    /\ th' = [th EXCEPT !.lp = "guard"]
    /\ UNCHANGED <<raceKeep, is_recording, capture_is_recording, audio_queue,
                   stream, hooks, hooks_active, loop, nextChunk>>

\* stop_recording(), lines 118-119, on thread t: the guard
StopGuard(t) ==
    /\ th[t] = "guard"
    /\ th' = [th EXCEPT ![t] = IF capture_is_recording THEN "flag"
                               ELSE AfterStop(t)]
    /\ UNCHANGED <<raceKeep, is_recording, capture_is_recording, audio_queue,
                   stream, hooks, hooks_active, loop, pending, nextChunk>>

\* stop_recording(), line 121, on thread t: self.is_recording = False
StopFlag(t) ==
    /\ th[t] = "flag"
    /\ capture_is_recording' = FALSE
    /\ th' = [th EXCEPT ![t] = "stream"]
    /\ UNCHANGED <<raceKeep, is_recording, audio_queue, stream, hooks,
                   hooks_active, loop, pending, nextChunk>>

\* stop_recording(), lines 124-125, on thread t: self.stream.stop() and
\* close(). With no stream object yet the call raises and lines 144-146 return
\* None; on a stream already closed PortAudio may raise or not
StopStream(t, raises) ==
    /\ th[t] = "stream"
    /\ stream = "active" => ~raises
    /\ stream = "none" => raises
    /\ stream' = IF raises THEN stream ELSE "stopped"
    /\ th' = [th EXCEPT ![t] = IF raises THEN AfterStop(t) ELSE "drain"]
    /\ UNCHANGED <<raceKeep, is_recording, capture_is_recording, audio_queue,
                   hooks, hooks_active, loop, pending, nextChunk>>

\* stop_recording(), lines 128-141, on thread t: the queue is drained and the
\* chunks are returned
StopDrain(t) ==
    /\ th[t] = "drain"
    /\ audio_queue' = <<>>
    /\ th' = [th EXCEPT ![t] = AfterStop(t),
                        !.returned = @ \cup Range(audio_queue)]
    /\ UNCHANGED <<raceKeep, is_recording, capture_is_recording, stream, hooks,
                   hooks_active, loop, pending, nextChunk>>

\* stop(), lines 86-87, called directly or from start() (line 56):
\* keyboard.unhook_all() and self._hooks_active = False
UiUnhook(restart) ==
    /\ th.ui = "idle"
    /\ loop' = IF restart THEN "running" ELSE loop
    /\ hooks' = {}
    /\ hooks_active' = FALSE
    /\ th' = [th EXCEPT !.ui = "check", !.restart = restart]
    /\ UNCHANGED <<raceKeep, is_recording, capture_is_recording, audio_queue,
                   stream, pending, nextChunk>>

\* stop(), line 88: the test of self.is_recording
UiCheck ==
    /\ th.ui = "check"
    /\ th' = [th EXCEPT !.ui = IF is_recording THEN "unset" ELSE AfterStop("ui")]
    /\ UNCHANGED <<raceKeep, is_recording, capture_is_recording, audio_queue,
                   stream, hooks, hooks_active, loop, pending, nextChunk>>

\* stop(), lines 89-90: self.is_recording = False, then stop_recording()
UiUnset ==
    /\ th.ui = "unset"
    /\ is_recording' = FALSE
    /\ th' = [th EXCEPT !.ui = "guard"]
    /\ UNCHANGED <<raceKeep, capture_is_recording, audio_queue, stream, hooks,
                   hooks_active, loop, pending, nextChunk>>

\* start(), lines 58-70: the hooks are installed
UiInstall ==
    /\ th.ui = "install"
    /\ LET r == InstallHooks(push_to_talk_key, action_hotkeys)
       IN /\ hooks' = r.hooks
          /\ hooks_active' = r.ok
    /\ th' = [th EXCEPT !.ui = "idle", !.restart = FALSE]
    /\ UNCHANGED <<raceKeep, is_recording, capture_is_recording, audio_queue,
                   stream, loop, pending, nextChunk>>

\* _audio_callback on the audio thread, lines 148-154
RaceCallback ==
    /\ stream = "active"
    /\ nextChunk <= MaxChunks
    /\ audio_queue' = IF capture_is_recording
                      THEN CallbackPut(audio_queue, nextChunk) ELSE audio_queue
    /\ nextChunk' = nextChunk + 1
    /\ UNCHANGED <<raceKeep, th, is_recording, capture_is_recording, stream,
                   hooks, hooks_active, loop, pending>>

StopThreads == {"lp", "ui"}

RaceNext ==
    \/ HkPress
    \/ HkSet
    \/ HkRelease
    \/ HkUnset
    \/ StartGuard
    \/ StartFlag
    \/ StartClear
    \/ \E opened \in BOOLEAN : StartOpen(opened)
    \/ LoopTake
    \/ \E t \in StopThreads : StopGuard(t)
    \/ \E t \in StopThreads : StopFlag(t)
    \/ \E t \in StopThreads, raises \in BOOLEAN : StopStream(t, raises)
    \/ \E t \in StopThreads : StopDrain(t)
    \/ \E restart \in BOOLEAN : UiUnhook(restart)
    \/ UiCheck
    \/ UiUnset
    \/ UiInstall
    \/ RaceCallback

SpecRace == InitIdle /\ [][RaceNext]_vars


SpecHooks == InitHooks /\ [][HooksNext]_vars

NetNext ==
    \/ \E i \in Loops : CallConnect(i)
    \/ \E i \in Loops : OpenOk(i)
    \/ \E i \in Loops : OpenFail(i)
    \/ \E i \in Loops : ResetDone(i)
    \/ \E i \in Loops : BackoffWake(i)
    \/ \E i \in Loops : SendConnectDone(i)
    \/ \E i \in Loops, wellFormed \in BOOLEAN : RecvFrame(i, wellFormed)
    \/ \E i \in Loops : RecvClosed(i)
    \/ \E i \in Loops : DispatchDone(i)
    \/ \E s \in Socks : SocketFail(s)
    \/ MetricsRun
    \/ MetricsSendDone
    \/ CallDisconnect
    \/ DisconnectDone

SpecNet == InitIdle /\ [][NetNext]_vars

\* One connect() coroutine with the senders and numbered inbound frames.
WireLoops == {1}

InitWire ==
    /\ NetInit /\ RecInit /\ rx = RxOn /\ engine = EngineOff
    /\ CapInit /\ devices = OneMic /\ selected_device = 0
    /\ push_to_talk_key = "alt" /\ action_hotkeys = NoHotkeys

WireNext ==
    \/ \E i \in WireLoops : CallConnect(i)
    \/ \E i \in WireLoops : OpenOk(i)
    \/ \E i \in WireLoops : OpenFail(i)
    \/ \E i \in WireLoops : ResetDone(i)
    \/ \E i \in WireLoops : BackoffWake(i)
    \/ \E i \in WireLoops : SendConnectDone(i)
    \/ \E i \in WireLoops, wellFormed \in BOOLEAN : RecvFrame(i, wellFormed)
    \/ \E i \in WireLoops : RecvClosed(i)
    \/ \E i \in WireLoops : DispatchDone(i)
    \/ \E s \in Socks : SocketFail(s)
    \/ MetricsRun
    \/ MetricsSendDone
    \/ CallDisconnect
    \/ DisconnectDone
    \/ \E transcript \in Transcripts, preferred_name \in Names :
          SendTranscript(transcript, preferred_name)
    \/ \E a \in Actions :
          SendAction([type |-> a, timestamp |-> "now"])

SpecWire == InitWire /\ [][WireNext]_vars

\* The event loop runs every coroutine that is ready: a pending
\* websockets.connect ends one way or the other, a sleep ends, a send ends, a
\* recv() on a closed socket raises, the handler and close() return. Calls of
\* connect() and disconnect(), socket failures and frames from the server are
\* up to the user and the peer.
NetFairness ==
    /\ \A i \in Loops :
          /\ WF_vars(OpenOk(i) \/ OpenFail(i))
          /\ WF_vars(ResetDone(i))
          /\ WF_vars(BackoffWake(i))
          /\ WF_vars(SendConnectDone(i))
          /\ WF_vars(RecvClosed(i))
          /\ WF_vars(DispatchDone(i))
    /\ WF_vars(MetricsRun)
    /\ WF_vars(MetricsSendDone)
    /\ WF_vars(DisconnectDone)

SpecNetFair == SpecNet /\ NetFairness

\* ------------------------------------------------------- claims, SpecNet

\* C1: after a listener exit the message handler has received exactly one
\* empty metrics_update by the time connect() starts its next connection
\* attempt.
C1_OneResetBeforeRetry ==
    \A i \in Loops :
        (pcC[i] = "opening" /\ since[i].ev = "closed") => since[i].empty = 1

\* C2: once disconnect() has returned and connect() was not called after it,
\* no step starts a connection attempt and no step sends request_metrics.
C2_NoAttemptAfterDisconnect ==
    discDone = "done" =>
        (~emitted.attempt /\ emitted.frame # "request_metrics")

\* C2 witness: disconnect() has returned while one connect() coroutine is in
\* its backoff sleep and the metrics task started by another is still alive.
C2_Witness ==
    /\ discDone = "done"
    /\ \E i \in Loops : pcC[i] = "backoff"
    /\ metrics_task \in {"created", "sleep"}

\* C3: a disconnect() that directly follows a completed disconnect() changes
\* no field of the client and schedules no status notification.
C3_SecondDisconnectNoOp ==
    [][(pcD = "closing" /\ pcD' = "idle" /\ dSecond) =>
          (emitted'.status = "none" /\
           UNCHANGED <<should_reconnect, connected, websocket, metrics_task>>)]_vars

\* C9: while a connection is being listened on with connected and
\* should_reconnect set, a metrics task that has not finished exists.
C9_MetricsTaskAlive ==
    \A i \in Loops :
        (pcC[i] \in {"listening", "dispatching"} /\ connected /\ should_reconnect)
            => metrics_task \in {"created", "sleep", "send", "retry"}

\* C10: when connect() starts its next attempt or returns after a listener
\* exit or a failed attempt, connected has been cleared, the status observers
\* have been told and the metrics task has been cancelled and cleared.
C10_CleanupBeforeRetry ==
    \A i \in Loops :
        (pcC[i] \in {"opening", "idle"} /\ since[i].ev # "none") =>
            (since[i].disc /\ since[i].status /\ since[i].cancel)

\* C11: every step that starts a connection attempt of a connect() coroutine
\* is either the first attempt of that call or the end of a backoff sleep.
C11_BackoffBeforeRetry ==
    [][\A i \in Loops :
          (pcC'[i] = "opening" /\ pcC[i] # "opening") =>
              pcC[i] \in {"idle", "backoff"}]_vars

\* ------------------------------------------------------ claims, SpecWire

\* Connected, and the socket carries the frame
CanSend == SendGuard(websocket, connected) /\ sock[websocket] = "open"

\* C15: send_transcript(transcript, preferred_name) called while Connected
\* on a working socket puts one frame on the wire: type transcript, username
\* = preferred_name, content = transcript.text, with a timestamp.
C15_TranscriptFrame ==
    [][(emitted'.call.op = "send_transcript" /\ CanSend) =>
          /\ emitted'.frame = "transcript"
          /\ emitted'.body.username = emitted'.call.name
          /\ emitted'.body.content = emitted'.call.text
          /\ emitted'.body.timestamp # "none"
          /\ ~emitted'.raised]_vars

\* C15 witness: send_transcript({text: "bye"}, "bob") has put its frame on
\* the wire.
C15_Witness ==
    /\ emitted.call.op = "send_transcript" /\ emitted.frame = "transcript"
    /\ emitted.body.username = "bob" /\ emitted.body.content = "bye"

\* C16: a step taken while the client is not Connected puts no transcript,
\* action or request_metrics frame on the wire (the connect frame of a
\* connection that opens in the step is the only frame possible), and a send
\* method called then raises nothing and changes no client state.
C16_NoSendWhenDisconnected ==
    [][~connected =>
          /\ emitted'.frame \in {"none", "connect"}
          /\ emitted'.call.op # "none" =>
                 /\ emitted'.frame = "none"
                 /\ ~emitted'.raised
                 /\ UNCHANGED <<should_reconnect, connected, websocket,
                                metrics_task, pcC, pcD, sock, ui_status,
                                firstFrame>>]_vars

\* C16 witness: send_action was called with the flag cleared while
\* self.websocket still holds an open socket.
C16_Witness ==
    /\ emitted.call.op = "send_action" /\ ~connected
    /\ websocket # 0 /\ sock[websocket] = "open"

\* C17: send_transcript or send_action called while Connected on a socket
\* that fails leaves the client Disconnected and raises nothing.
C17_SendFailureContained ==
    [][(/\ emitted'.call.op \in {"send_transcript", "send_action"}
        /\ SendGuard(websocket, connected)
        /\ sock[websocket] # "open") =>
           (~connected' /\ ~emitted'.raised)]_vars

\* C17 witness: a send_transcript call has failed on the socket.
C17_Witness ==
    emitted.call.op = "send_transcript" /\ emitted.fault /\ ~connected

\* C18: the step in which a connection opens sets connected, notifies
\* Connected and sends the connect frame with the user id; listening starts
\* only from there, in a later step; and the first frame sent on the socket
\* in self.websocket is never anything but the connect frame.
C18_ConnectFrameFirst ==
    [][/\ \A i \in Loops :
            (pcC[i] = "opening" /\ pcC'[i] = "sendConnect") =>
                /\ connected' /\ emitted'.status = "up"
                /\ emitted'.frame = "connect"
                /\ emitted'.body.user_id # "none"
       /\ \A i \in Loops :
            (pcC'[i] = "listening" /\ pcC[i] \notin {"listening", "dispatching"})
                => pcC[i] = "sendConnect"
       /\ firstFrame' \in {"none", "connect"}]_vars

\* C18 witness: a transcript frame went out on a connection whose first
\* frame was the connect frame.
C18_Witness ==
    firstFrame = "connect" /\ emitted.frame = "transcript"

\* C19: the frames handed to the message handler are the well-formed frames
\* recv() returned, in that order, each once; and recv() returns the next
\* frame only when no handler call is in progress.
C19_DispatchInOrder ==
    [][/\ rx'.handled = rx'.arrived
       /\ rx'.next > rx.next => ~rx.busy]_vars

\* C19 witness: two frames have been dispatched.
C19_Witness == rx.on /\ Len(rx.handled) = 2

\* ------------------------------------------------------- claims, SpecNet

\* C14: when the send of request_metrics fails, the metrics task hands an
\* empty metrics_update to the message handler and retries after sleep(1).
C14_MetricsSendFailure ==
    [][(/\ metrics_task = "send"
        /\ metrics_task' \in {"sleep", "retry"}
        /\ sock[msock] # "open") =>
           (emitted'.msg = "empty_metrics" /\ metrics_task' = "retry")]_vars

\* C33: a step of the metrics task (the end of its request_metrics send)
\* leaves connected as it was; only the connect loop and disconnect() write
\* the field.
C33_MetricsKeepsState ==
    [][(metrics_task = "send" /\ metrics_task' \in {"sleep", "retry"}) =>
          UNCHANGED connected]_vars

\* C36: between the steps of the coroutines the value last handed to the
\* status handler is the value of connected: the observer sees "up" exactly
\* while the client is Connected.
C36_StatusMatchesConnected == (ui_status = "up") <=> connected

\* C37: at most one connect() loop is running, and a step that opens a new
\* socket finds the socket the client held before it closed.
C37_OneLoopOneSocket ==
    [][/\ Cardinality({i \in Loops : pcC'[i] # "idle"}) <= 1
       /\ \A i \in Loops :
            (pcC[i] = "opening" /\ pcC'[i] = "sendConnect") =>
                (websocket = 0 \/ sock[websocket] # "open")]_vars

\* C38: no connect() coroutine is ever in a loop iteration that reaches no
\* await: a connect() call made while the client is Connected does not spin.
C38_EveryIterationSuspends == \A i \in Loops : pcC[i] # "spin"

\* ---------------------------------------------------- claims, SpecNetFair

Quiesced ==
    /\ \A i \in Loops : pcC[i] = "idle"
    /\ metrics_task \in {"None", "finished"}
    /\ ~connected

C13_DisconnectTerminates ==
    (discDone = "done") ~> (Quiesced \/ discDone # "done")

\* ------------------------------------------------------- claims, SpecRec

recState == <<is_recording, capture_is_recording, audio_queue, stream, pending>>

\* C4: in Push mode, since the hooks were last installed, is_recording is
\* true exactly when the latest push-to-talk event is a key-down; a key-down
\* while already recording changes nothing and calls start_recording no
\* second time.
C4_PushFollowsKey ==
    [][/\ (mode' = "push" /\ lastKey' # "none") =>
              (is_recording' <=> lastKey' = "down")
       /\ (recEv'.op = "press" /\ mode = "push" /\ is_recording) =>
              (recEv'.starts = 0 /\ UNCHANGED recState)]_vars

\* C4 witness: a repeated key-down arrived while recording in Push mode.
C4_Witness ==
    /\ mode = "push" /\ lastKey = "down" /\ is_recording
    /\ recEv.op = "press" /\ recEv.starts = 0

\* C5: in Toggle mode every key-down flips is_recording and every key-up
\* leaves is_recording and the AudioCapture as they were.
C5_ToggleFlips ==
    [][/\ (recEv'.op = "press" /\ mode = "toggle") =>
              is_recording' = ~is_recording
       /\ (recEv'.op = "release" /\ mode = "toggle") =>
              (UNCHANGED recState /\ recEv'.starts = 0 /\ recEv'.stops = 0)]_vars

\* C5 witness: a Toggle-mode key-down has taken the controller from Recording
\* to Idle.
C5_Witness ==
    /\ mode = "toggle" /\ recEv.op = "press" /\ ~is_recording
    /\ recEv.sched = <<ProcessTask>>

\* C6: in a Push-mode run, once every submitted hand-off has run, process()
\* has been invoked once per key-down/key-up pair that got a chunk, each time
\* with exactly the chunks delivered during that pair.
C6_OneProcessPerPair ==
    (pushRun /\ pending = 0) =>
        \A k \in 1..Len(pairs) :
            \E j \in 1..Len(processed) : processed[j] = pairs[k]

C8_ActionKeyFrame ==
    [][recEv'.op \in Actions =>
          /\ UNCHANGED <<mode, recState>>
          /\ recEv'.starts = 0 /\ recEv'.stops = 0
          /\ (action_callback /\ loop # "None" /\ LoopIsRunning) =>
                 recEv'.sched = <<[co |-> "action_callback", arg |-> recEv'.op]>>]_vars

\* C8 witness: an action hotkey was pressed while recording and its event
\* was submitted.
C8_Witness ==
    /\ recEv.op \in Actions /\ is_recording /\ capture_is_recording
    /\ recEv.sched # <<>>

\* C20: every stop_recording() called while the capture is recording fires
\* on_recording_stop, whether or not any chunk was captured.
C20_StopNotifies ==
    [][(recEv'.stops = 1 /\ capture_is_recording) => recEv'.fired = "stop"]_vars

\* C24: process_audio() on a non-empty buffer calls on_processing_start
\* once, before the engine, and on_processing_end once, after everything
\* else, whether the engine returned segments, none, or raised.
C24_ProcessingNotified ==
    [][(recEv'.op = "process" /\ recEv'.ret # <<>>) =>
          LET c == recEv'.calls
          IN /\ Len(c) >= 3
             /\ c[1] = "on_processing_start" /\ c[2] = "transcribe"
             /\ c[Len(c)] = "on_processing_end"
             /\ Cardinality({k \in 1..Len(c) : c[k] = "on_processing_start"}) = 1
             /\ Cardinality({k \in 1..Len(c) : c[k] = "on_processing_end"}) = 1]_vars

\* C24 witness: the engine raised on a buffer and the end notification was
\* the last call.
C24_Witness ==
    /\ recEv.op = "process" /\ recEv.outcome = "raise"
    /\ recEv.calls # <<>> /\ recEv.calls[Len(recEv.calls)] = "on_processing_end"

\* C26: _process_audio() submits the transcription callback once when the
\* engine reported segments for a non-empty buffer, and not at all for an
\* empty buffer, a no-speech result or an engine failure.
C26_CallbackOnlyForTranscript ==
    [][recEv'.op = "process" =>
          recEv'.sched = IF recEv'.ret # <<>> /\ recEv'.outcome = "segments"
                         THEN <<[co |-> "callback", arg |-> "transcript"]>>
                         ELSE <<>>]_vars

\* C26 witness: a buffer of three chunks in which the engine found no speech
\* was processed and nothing was submitted.
C26_Witness ==
    /\ recEv.op = "process" /\ recEv.outcome = "nospeech"
    /\ Len(recEv.ret) = 3 /\ recEv.sched = <<>>

\* C27: stop() called while the controller is recording removes every hook,
\* leaves the controller idle and the AudioCapture not recording, empties the
\* queue, and neither runs nor submits any processing.
C27_StopDiscards ==
    [][(recEv'.op = "stop" /\ is_recording) =>
          /\ hooks' = {} /\ ~hooks_active'
          /\ ~is_recording' /\ ~capture_is_recording'
          /\ audio_queue' = <<>>
          /\ recEv'.sched = <<>> /\ recEv'.calls = <<>>
          /\ UNCHANGED <<processed, pending>>]_vars

\* C27 witness: stop() took two queued chunks out of a running recording.
C27_Witness ==
    recEv.op = "stop" /\ recEv.stops = 1 /\ Len(recEv.ret) = 2

\* C32: a key handler that ends the recording (key-up in Push mode, the
\* stopping key-down in Toggle mode) leaves the AudioCapture not recording
\* when it returns.
C32_StopIsSynchronous ==
    [][(recEv'.op \in {"press", "release"} /\ is_recording /\ ~is_recording')
          => ~capture_is_recording']_vars

\* C34: a key-down whose start_recording() fails to open the stream leaves
\* the controller idle.
C34_FailedStartStaysIdle ==
    [][(recEv'.op = "press" /\ recEv'.openFailed) => ~is_recording']_vars

\* C35: a key handler that submits _process_audio() returns with the task
\* still waiting on the loop and nothing processed, and stop() returns with
\* the waiting tasks as they were: neither waits for an event-loop task.
C35_HandlersNeverWait ==
    [][/\ (recEv'.op \in {"press", "release"} /\ recEv'.sched # <<>>) =>
             (pending' = pending + 1 /\ UNCHANGED processed)
       /\ recEv'.op = "stop" => UNCHANGED <<pending, processed>>]_vars

\* C35 witness: stop() has ended a recording in progress while a
\* _process_audio() task submitted earlier is still waiting on the loop.
C35_Witness == recEv.op = "stop" /\ recEv.stops = 1 /\ pending > 0

\* ------------------------------------------------------ claims, SpecProc

\* C25: an engine failure gives no transcript, raises nothing out of
\* _process_audio(), submits no callback and leaves the controller as it
\* was; after a failure a start still starts the capture and a buffer with
\* speech is still transcribed.
C25_EngineFailureContained ==
    [][/\ (recEv'.op = "process" /\ recEv'.outcome = "raise") =>
            /\ recEv'.result = "None" /\ recEv'.sched = <<>>
            /\ ~recEv'.raised
            /\ UNCHANGED <<mode, is_recording, hooks, hooks_active, loop>>
       /\ (engine.failed /\ recEv'.starts = 1 /\ ~recEv'.openFailed) =>
            capture_is_recording'
       /\ (/\ engine.failed /\ recEv'.op = "process"
           /\ recEv'.outcome = "segments") =>
            (recEv'.result = "transcript" /\ recEv'.sched # <<>>)]_vars

\* C25 witness: after an engine failure a later buffer was transcribed and
\* its callback submitted.
C25_Witness ==
    /\ engine.failed /\ recEv.op = "process"
    /\ recEv.outcome = "segments" /\ recEv.sched # <<>>

\* C39: between the steps of the loop no process_audio() is in progress,
\* so at most one runs at a time, and over the whole run the
\* on_processing_start and on_processing_end notifications alternate,
\* beginning with a start: the latest one is never a start left open.
C39_ProcessingAlternates ==
    /\ engine.alt
    /\ engine.last # "on_processing_start"
    /\ recEv.op = "process" =>
          Len(Notices(recEv.calls)) = (IF recEv.ret = <<>> THEN 0 ELSE 2)

\* C39 witness: a second buffer has been processed after an earlier one was
\* completed, with another _process_audio() task still waiting on the loop.
C39_Witness ==
    /\ recEv.op = "process" /\ recEv.ret # <<>>
    /\ Len(processed) >= 2 /\ pending > 0
    /\ engine.last = "on_processing_end"


\* C21: start_recording() on a recording AudioCapture opens no stream,
\* leaves the queue and is_recording alone and fires nothing.
C21_StartWhileRecording ==
    [][(recEv'.starts = 1 /\ capture_is_recording) =>
          /\ UNCHANGED <<capture_is_recording, stream, audio_queue,
                         stream_device>>
          /\ recEv'.fired = "none"]_vars

\* C21 witness: start_recording() was called on a recording AudioCapture
\* with chunks queued.
C21_Witness ==
    /\ recEv.op = "start_recording" /\ recEv.fired = "none"
    /\ ~recEv.openFailed /\ capture_is_recording /\ audio_queue # <<>>

\* C22: stop_recording() on an AudioCapture that is not recording returns
\* None, fires nothing and changes nothing.
C22_StopWhileIdle ==
    [][(recEv'.stops = 1 /\ ~capture_is_recording) =>
          /\ recEv'.ret = <<>> /\ recEv'.fired = "none"
          /\ UNCHANGED <<capture_is_recording, audio_queue, stream>>]_vars

\* C22 witness: stop_recording() was called before any stream was opened.
C22_Witness == recEv.op = "stop_recording" /\ stream = "none"

\* C23: a start_recording() whose stream fails to open leaves the
\* AudioCapture not recording and fires nothing; a chunk delivered while it
\* is not recording is not queued.
C23_FailedStart ==
    [][/\ recEv'.openFailed =>
            (~capture_is_recording' /\ recEv'.fired = "none")
       /\ (recEv'.op = "chunk" /\ ~capture_is_recording) =>
            audio_queue' = audio_queue]_vars

\* C23 witness: a chunk arrived right after a failed start and was dropped.
C23_Witness ==
    /\ recEv.op = "chunk" /\ recEv.openFailed
    /\ ~capture_is_recording /\ audio_queue = <<>>

\* C29: list_input_devices() returns the devices with input channels, each
\* under its own index and with its channel count, in index order, and
\* none of the others.
C29_ListInputDevices ==
    [][recEv'.op = "list_input_devices" =>
          LET out == recEv'.listed
          IN /\ \A k \in 1..Len(out) :
                   /\ out[k].id \in 0..(Len(devices) - 1)
                   /\ devices[out[k].id + 1] > 0
                   /\ out[k].channels = devices[out[k].id + 1]
             /\ \A k \in 1..(Len(out) - 1) : out[k].id < out[k + 1].id
             /\ \A i \in 0..(Len(devices) - 1) :
                   devices[i + 1] > 0 => \E k \in 1..Len(out) : out[k].id = i]_vars

\* C29 witness: of three devices the first has no input channel and the
\* other two were listed.
C29_Witness ==
    /\ recEv.op = "list_input_devices" /\ Len(devices) = 3
    /\ devices[1] = 0 /\ Len(recEv.listed) = 2

\* C30: set_device(id) returns False and keeps selected_device for a device
\* that has no input channel or cannot be queried, returns True and stores
\* the id otherwise, and never touches the recording state; a stream that
\* start_recording() opens is opened on selected_device.
C30_SetDevice ==
    [][/\ recEv'.op = "set_device" =>
            LET id == recEv'.arg
                usable == id \in 0..(Len(devices) - 1) /\ devices[id + 1] > 0
            IN /\ recEv'.ok = usable
               /\ usable => selected_device' = id
               /\ ~usable => UNCHANGED selected_device
               /\ UNCHANGED <<capture_is_recording, stream, audio_queue>>
       /\ (recEv'.starts = 1 /\ recEv'.fired = "start") =>
            stream_device' = selected_device]_vars

\* C30 witness: set_device() refused a device without input channels while a
\* recording was running on the selected device.
C30_Witness ==
    /\ recEv.op = "set_device" /\ ~recEv.ok
    /\ recEv.arg \in 0..(Len(devices) - 1)
    /\ capture_is_recording /\ stream_device = selected_device
    /\ selected_device # recEv.arg

\* ------------------------------------------------------ claims, SpecRace

\* C31: under every interleaving of start_recording() on the hook thread,
\* stop_recording() on the loop thread and the audio callback, no chunk the
\* callback queued is discarded by a start's queue clear: every queued chunk
\* is still queued or was drained by a stop_recording().
C31_NoChunkLost == th.cleared = {}

\* C40: once a key handler and a stop() (or stop() then start()) running on
\* another thread have both finished and no _process_audio() is waiting or
\* running, a manager with no hooks installed is Idle and its AudioCapture is
\* not recording.
C40_IdleWithoutHooks ==
    (/\ th.hk = "idle" /\ th.ui = "idle" /\ th.lp = "idle"
     /\ pending = 0 /\ hooks = {}) =>
        (~is_recording /\ ~capture_is_recording)

\* ----------------------------------------------------- claims, SpecHooks

\* C28: the installed hooks are those of the stored configuration when
\* _hooks_active is set (press and release on the push-to-talk key, one
\* press hook for each action with a key), and none when it is not.
C28_HooksMatchConfig ==
    hooks = IF hooks_active
            THEN (IF push_to_talk_key # ""
                  THEN {[key |-> push_to_talk_key, on |-> "press"],
                        [key |-> push_to_talk_key, on |-> "release"]}
                  ELSE {})
                 \cup {[key |-> action_hotkeys[a], on |-> a] :
                         a \in {b \in Actions : action_hotkeys[b] # ""}}
            ELSE {}

====
